---- MODULE Spec2Model ----
(***************************************************************************)
(* Model of aihwkit/nn/modules/conv.py: the analog convolution layers      *)
(* AnalogConv2d and AnalogConv3d.  A layer is constructed, then forward()  *)
(* is called with input tensors; forward() (re)builds the gather index     *)
(* table `fold_indices` when the cached per-sample element count changes,  *)
(* pushes it to the analog tile with set_indexed() and always runs the     *)
(* tile's indexed operation.                                               *)
(*                                                                         *)
(* Tensors carry no numeric payload here: an input is its batch size and   *)
(* its per-sample shape, which is all that conv.py reads from it.          *)
(* Python tuples are 0-based, TLA+ sequences 1-based: axis i of the source *)
(* is element i + 1 of the tuples below.                                   *)
(***************************************************************************)
EXTENDS Integers, Sequences, FiniteSets, TLC

VARIABLES
    phase,          \* "new" | "ready" (constructed) | "error" (__init__ raised)
    ctor_args,      \* the arguments the constructor was called with
    self,           \* attributes set once by __init__ (rank, in_channels, kernel_size, ...)
    fold_indices,   \* self.fold_indices: the cached IndexMap (flat sequence)
    input_size,     \* self.input_size: the cached per-sample element count
    training,       \* self.training
    weight,         \* self.weight (opaque value)
    bias,           \* self.bias (opaque value, "None" when bias is disabled)
    analog_tile,    \* what the analog tile was told: weights, index map, image sizes
    last,           \* record of the last forward() call
    serialized,     \* whether the callers serialize forward() per layer instance
    pc,             \* per thread: position inside forward()
    loc             \* per thread: the local variables of forward()

vars == <<phase, ctor_args, self, fold_indices, input_size, training, weight, bias,
          analog_tile, last, serialized, pc, loc>>

(***************************************************************************)
(* Bounds of the model.                                                    *)
(***************************************************************************)
MaxChannels == 2        \* in_channels ranges over 1..MaxChannels
MaxKernel   == 2        \* kernel sizes per axis
MaxStride   == 2        \* strides per axis
MaxPad      == 1        \* paddings per axis (0..MaxPad)
MaxDil      == 2        \* dilations per axis (2D)
MaxSize     == 2        \* input height and width
MaxDepth    == 2        \* input depth (3D)
MaxBatch    == 2        \* batch sizes

(***************************************************************************)
(* Tensor primitives (torch), modelled by what they compute.               *)
(***************************************************************************)
RECURSIVE Prod(_)
Prod(s) == IF s = <<>> THEN 1 ELSE Head(s) * Prod(Tail(s))

\* x_input.numel()
numel(x) == x.batch * Prod(x.shape)

\* torch.arange(start, end): start, start+1, ..., end-1
arange(start, end) == [i \in 1..(end - start) |-> start + (i - 1)]

\* The largest value of torch.int32.
Int32Max == 2147483647

\* Tensor.round().to(dtype=int32) on a float64 value that holds a non-negative
\* integer (the addresses are exact in float64): rounding keeps it, the cast keeps
\* a value that fits 32 bits and wraps a larger one (below 2^32) into the negatives.
to_int32(v) == IF v <= Int32Max THEN v ELSE ((v - Int32Max) - Int32Max) - 2

\* Mutant of Flatten: the matrix is read out column by column.
Flatten_ColumnMajor(m) ==
    IF Len(m) = 0 THEN <<>>
    ELSE LET rows == Len(m)
         IN  [n \in 1..(rows * Len(m[1])) |-> m[((n - 1) % rows) + 1][((n - 1) \div rows) + 1]]

\* flatten() of a matrix given as a sequence of rows: rows in order.
Flatten(m) ==
    IF Len(m) = 0 THEN <<>>
    ELSE LET cols == Len(m[1])
         IN  [n \in 1..(Len(m) * cols) |-> m[((n - 1) \div cols) + 1][((n - 1) % cols) + 1]]

\* transpose(0, 1) of a matrix given as a sequence of rows.
Transpose(m) ==
    IF Len(m) = 0 THEN <<>>
    ELSE [c \in 1..Len(m[1]) |-> [r \in 1..Len(m) |-> m[r][c]]]

\* Number of sliding blocks torch.nn.Unfold extracts along one axis: the window
\* starts o*stride (o = 0, 1, ...) whose dilated window lies inside the padded axis.
UnfoldBlocks(size, kernel, stride, pad, dil) ==
    Cardinality({o \in 0..(size + 2 * pad) :
                    o * stride + dil * (kernel - 1) + 1 <= size + 2 * pad})

\* Number of slices Tensor.unfold(dim, size, step) takes along an axis of length n.
SliceCount(n, size, step) ==
    Cardinality({o \in 0..n : o * step + size <= n})

\* torch.nn.Unfold(kernel_size, stride, padding, dilation) applied to a tensor of
\* shape [1, C, H, W] given by its flat row-major data: the [C*kh*kw, L] matrix of
\* sliding blocks (row = channel-major patch element, column = output position
\* in row-major order); cells of the zero padding read 0.
Unfold(data, shape, kernel_size, stride, padding, dilation) ==
    LET C  == shape[1]
        H  == shape[2]
        W  == shape[3]
        kh == kernel_size[1]
        kw == kernel_size[2]
        Ho == UnfoldBlocks(H, kh, stride[1], padding[1], dilation[1])
        Wo == UnfoldBlocks(W, kw, stride[2], padding[2], dilation[2])
        cell(c, h, w) ==
            IF h < 0 \/ h >= H \/ w < 0 \/ w >= W THEN 0
            ELSE data[(c * H + h) * W + w + 1]
    IN  [r \in 1..(C * kh * kw) |->
            [l \in 1..(Ho * Wo) |->
                LET c  == (r - 1) \div (kh * kw)
                    i  == ((r - 1) % (kh * kw)) \div kw
                    j  == ((r - 1) % (kh * kw)) % kw
                    oh == (l - 1) \div Wo
                    ow == (l - 1) % Wo
                IN  cell(c, oh * stride[1] - padding[1] + i * dilation[1],
                            ow * stride[2] - padding[2] + j * dilation[2])]]

\* Mutant of pad: the pad list is read first axis first, so the width is padded
\* by the depth's amounts and the depth by the width's.
pad_AxisOrder(t, wl, wr, hl, hr, dl, dr) ==
    LET D  == t.shape[1]
        H  == t.shape[2]
        W  == t.shape[3]
        D2 == D + wl + wr
        H2 == H + hl + hr
        W2 == W + dl + dr
    IN  [shape |-> <<D2, H2, W2>>,
         data  |-> [n \in 1..(D2 * H2 * W2) |->
                      LET z == ((n - 1) \div (H2 * W2)) - wl
                          y == (((n - 1) \div W2) % H2) - hl
                          x == ((n - 1) % W2) - dl
                      IN  IF z < 0 \/ z >= D \/ y < 0 \/ y >= H \/ x < 0 \/ x >= W
                          THEN 0
                          ELSE t.data[(z * H + y) * W + x + 1]]]

\* torch.nn.functional.pad(t, (p2, p2, p1, p1, p0, p0), mode="constant", value=0)
\* of a [1, 1, D, H, W] tensor: the pad list names the LAST axis first, so the
\* arguments wl/wr pad the width, hl/hr the height, dl/dr the depth.
pad(t, wl, wr, hl, hr, dl, dr) ==
    LET D  == t.shape[1]
        H  == t.shape[2]
        W  == t.shape[3]
        D2 == D + dl + dr
        H2 == H + hl + hr
        W2 == W + wl + wr
    IN  [shape |-> <<D2, H2, W2>>,
         data  |-> [n \in 1..(D2 * H2 * W2) |->
                      LET z == ((n - 1) \div (H2 * W2)) - dl
                          y == (((n - 1) \div W2) % H2) - hl
                          x == ((n - 1) % W2) - wl
                      IN  IF z < 0 \/ z >= D \/ y < 0 \/ y >= H \/ x < 0 \/ x >= W
                          THEN 0
                          ELSE t.data[(z * H + y) * W + x + 1]]]

\* t.unfold(2, k0, s0).unfold(3, k1, s1).unfold(4, k2, s2).reshape(-1, k0*k1*k2)
\* of a [1, 1, D, H, W] tensor: one row per window position (row-major over the
\* positions), one column per window element (row-major over the window).
unfold_reshape(t, kernel_size, stride) ==
    LET D  == t.shape[1]
        H  == t.shape[2]
        W  == t.shape[3]
        k0 == kernel_size[1]
        k1 == kernel_size[2]
        k2 == kernel_size[3]
        Do == SliceCount(D, k0, stride[1])
        Ho == SliceCount(H, k1, stride[2])
        Wo == SliceCount(W, k2, stride[3])
    IN  [l \in 1..(Do * Ho * Wo) |->
            [k \in 1..(k0 * k1 * k2) |->
                LET od == (l - 1) \div (Ho * Wo)
                    oh == ((l - 1) \div Wo) % Ho
                    ow == (l - 1) % Wo
                    a  == (k - 1) \div (k1 * k2)
                    b  == ((k - 1) \div k2) % k1
                    c  == (k - 1) % k2
                    z  == od * stride[1] + a
                    y  == oh * stride[2] + b
                    x  == ow * stride[3] + c
                IN  t.data[(z * H + y) * W + x + 1]]]

\* torch.ones(n, dtype=int32)
ones(n) == [i \in 1..n |-> 1]

\* torch.nn.modules.utils._pair / _triple: a tuple is kept, an int is repeated.
\* An argument is [tag |-> "int", v |-> <<n>>] or [tag |-> "tuple", v |-> <<...>>].
ntuple(n, a) == IF a.tag = "tuple" THEN a.v ELSE [i \in 1..n |-> a.v[1]]

IntArg(n) == [tag |-> "int", v |-> <<n>>]
TupleArg(s) == [tag |-> "tuple", v |-> s]

(***************************************************************************)
(* forward(): the pieces of lines 125-156 (2D) and 275-329 (3D).           *)
(***************************************************************************)

\* Mutant of get_size: the padding is counted on one side only.
get_size_PadOnce(s, size, i) ==
    LET nom == size + s.padding[i + 1]
                    - s.dilation[i + 1] * (s.kernel_size[i + 1] - 1) - 1
    IN  (nom \div s.stride[i + 1]) + 1

\* get_size(size, i): the output image size along axis i (0-based as in the source).
get_size(s, size, i) ==
    LET nom == size + 2 * s.padding[i + 1]
                    - s.dilation[i + 1] * (s.kernel_size[i + 1] - 1) - 1
    IN  (nom \div s.stride[i + 1]) + 1

\* input_size = x_input.numel() / x_input.size(0)   (the division is exact)
per_sample(x) == numel(x) \div x.batch

\* Mutant of NeedsRebuild: the cached key is not compared.
NeedsRebuild_KeyIgnored(fold, cached_size, isz) == Len(fold) = 0

\* The condition of the `if` at lines 131 / 281.
NeedsRebuild(fold, cached_size, isz) == (Len(fold) = 0) \/ (cached_size # isz)

\* Whether the window extraction accepts the input; torch raises otherwise
\* (Unfold: output size < 1; Tensor.unfold: window larger than the axis).
Accepts2d(s, x) ==
    /\ UnfoldBlocks(x.shape[2], s.kernel_size[1], s.stride[1], s.padding[1], s.dilation[1]) >= 1
    /\ UnfoldBlocks(x.shape[3], s.kernel_size[2], s.stride[2], s.padding[2], s.dilation[2]) >= 1

Accepts3d(s, x) ==
    /\ s.kernel_size[1] <= x.shape[2] + 2 * s.padding[1]
    /\ s.kernel_size[2] <= x.shape[3] + 2 * s.padding[2]
    /\ s.kernel_size[3] <= x.shape[4] + 2 * s.padding[3]

\* Lines 142-144 / 311-315: the bias entries.
AppendBias(s, idx) ==
    IF s.use_bias
    THEN LET out_image_size == Len(idx) \div Prod(s.kernel_size)
         IN  idx \o ones(out_image_size)
    ELSE idx

\* Lines 133-144: the IndexMap of AnalogConv2d for input x.
BuildFoldIndices2d(s, x) ==
    LET isz   == per_sample(x)
        addr  == arange(2, isz + 2)
        shape == x.shape
        flat  == Flatten(Unfold(addr, shape, s.kernel_size, s.stride,
                                s.padding, s.dilation))
        idx   == [n \in 1..Len(flat) |-> to_int32(flat[n])]
    IN  AppendBias(s, idx)

\* Mutant of ChannelCat: the channel offset is added to the sentinels too.
RECURSIVE ChannelCat_OffsetsSentinels(_, _, _, _, _)
ChannelCat_OffsetsSentinels(acc, orig, i, in_channels, isz) ==
    IF i >= in_channels - 1 THEN acc
    ELSE LET tmp == [j \in 1..Len(orig) |->
                        orig[j] + (isz \div in_channels) * (i + 1)]
         IN  ChannelCat_OffsetsSentinels(acc \o tmp, orig, i + 1, in_channels, isz)

\* Lines 300-307: the blocks of channels 1..in_channels-1 appended to channel 0's.
RECURSIVE ChannelCat(_, _, _, _, _)
ChannelCat(acc, orig, i, in_channels, isz) ==
    IF i >= in_channels - 1 THEN acc
    ELSE LET tmp == [j \in 1..Len(orig) |->
                        IF orig[j] # 0
                        THEN orig[j] + (isz \div in_channels) * (i + 1)
                        ELSE orig[j]]
         IN  ChannelCat(acc \o tmp, orig, i + 1, in_channels, isz)

\* Lines 283-315: the IndexMap of AnalogConv3d for input x.
BuildFoldIndices3d(s, x) ==
    LET isz    == per_sample(x)
        D      == x.shape[2]
        H      == x.shape[3]
        W      == x.shape[4]
        base   == [shape |-> <<D, H, W>>, data |-> arange(2, D * H * W + 2)]
        padded == IF \A a \in 1..3 : s.padding[a] = 0 THEN base
                  ELSE pad(base, s.padding[3], s.padding[3],
                                 s.padding[2], s.padding[2],
                                 s.padding[1], s.padding[1])
        orig   == Flatten(Transpose(unfold_reshape(padded, s.kernel_size, s.stride)))
        allch  == ChannelCat(orig, orig, 0, s.in_channels, isz)
        idx    == [n \in 1..Len(allch) |-> to_int32(allch[n])]
    IN  AppendBias(s, idx)

\* Lines 148-154 / 319-327: the geometry descriptor.
ImageSizes2d(s, x) ==
    <<s.in_channels, x.shape[2], x.shape[3],
      get_size(s, x.shape[2], 0), get_size(s, x.shape[3], 1)>>

ImageSizes3d(s, x) ==
    <<s.in_channels, x.shape[2], x.shape[3], x.shape[4],
      get_size(s, x.shape[2], 0), get_size(s, x.shape[3], 1), get_size(s, x.shape[4], 2)>>

Accepts(s, x) == IF s.rank = 2 THEN Accepts2d(s, x) ELSE Accepts3d(s, x)
BuildFoldIndices(s, x) ==
    IF s.rank = 2 THEN BuildFoldIndices2d(s, x) ELSE BuildFoldIndices3d(s, x)
ImageSizes(s, x) == IF s.rank = 2 THEN ImageSizes2d(s, x) ELSE ImageSizes3d(s, x)

(***************************************************************************)
(* The external collaborators, as far as conv.py drives them.              *)
(***************************************************************************)

\* The analog tile before any layer owns one.
NoTile == [in_size |-> 0, out_size |-> 0, bias |-> FALSE, weights |-> "unset",
           fold_indices |-> <<>>, image_sizes |-> <<>>]

\* self._setup_tile(in_features, out_features, bias, rpu_config, realistic_read_write)
setup_tile(in_features, out_features, use_bias) ==
    [in_size |-> in_features, out_size |-> out_features, bias |-> use_bias,
     weights |-> "unset", fold_indices |-> <<>>, image_sizes |-> <<>>]

\* Mutant of set_indexed: the geometry descriptor is not passed on.
set_indexed_KeepsSizes(tile, fold, image_sizes) ==
    [tile EXCEPT !.fold_indices = fold]

\* self.analog_tile.set_indexed(fold_indices, image_sizes)
set_indexed(tile, fold, image_sizes) ==
    [tile EXCEPT !.fold_indices = fold, !.image_sizes = image_sizes]

\* Mutant of InferenceFlag: the training flag is passed as it is.
InferenceFlag_Training(is_training) == is_training

\* The last argument of AnalogIndexedFunction.apply: `not self.training`.
InferenceFlag(is_training) == ~is_training

\* What AnalogIndexedFunction.apply(analog_tile, x_input, weight, bias, inference)
\* hands back: the tile's output for this input under the index map it holds.
TileOutput(tile, x, w, b, inference) ==
    [x |-> x, image_sizes |-> tile.image_sizes, weight |-> w, bias |-> b,
     inference |-> inference]

\* One entry of a call's log of tile operations.
SetIndexedEvent(fold, image_sizes) ==
    [op |-> "set_indexed", fold_indices |-> fold, image_sizes |-> image_sizes,
     inference |-> FALSE]
ApplyEvent(tile, inference) ==
    [op |-> "apply", fold_indices |-> tile.fold_indices,
     image_sizes |-> tile.image_sizes, inference |-> inference]

NoSelf == [rank |-> 0]
NoArgs == [rank |-> 0, args |-> <<>>]
NoInput == [batch |-> 0, shape |-> <<>>]
NoCall == [valid |-> FALSE]
NoLocals == [x |-> NoInput]

Threads == {1, 2}

(***************************************************************************)
(* Construction (lines 72-114 and 219-264).                                *)
(***************************************************************************)

\* `dilation != 1` at line 238: the argument is compared as given, an int or a tuple.
DilationIsNotOne(d) == ~(d.tag = "int" /\ d.v[1] = 1)

\* Whether __init__ raises ValueError.
InitRaises2d(a) == a.groups # 1 \/ a.padding_mode # "zeros"
InitRaises3d(a) ==
    a.groups # 1 \/ a.padding_mode # "zeros" \/ DilationIsNotOne(a.dilation)

\* The attributes a completed __init__ leaves on the layer.
Constructed(rank, a) ==
    LET kernel_size == ntuple(rank, a.kernel_size)
    IN  [rank         |-> rank,
         in_channels  |-> a.in_channels,
         out_channels |-> a.out_channels,
         kernel_size  |-> kernel_size,
         stride       |-> ntuple(rank, a.stride),
         padding      |-> ntuple(rank, a.padding),
         dilation     |-> ntuple(rank, a.dilation),
         use_bias     |-> a.bias,
         in_features  |-> (a.in_channels \div a.groups) * Prod(kernel_size),
         out_features |-> a.out_channels]

\* __init__ of either class called with arguments a.
init(rank, a, raises) ==
    /\ phase = "new"
    /\ ctor_args' = [rank |-> rank, args |-> a]
    /\ IF raises
       THEN /\ phase' = "error"
            /\ UNCHANGED <<self, fold_indices, input_size, training, weight, bias,
                           analog_tile>>
       ELSE LET s == Constructed(rank, a)
            IN  /\ phase' = "ready"
                /\ self' = s
                /\ training' = TRUE
                /\ weight' = "initial"
                /\ bias' = IF a.bias THEN "initial" ELSE "None"
                \* reset_parameters(): set_weights(self.weight, self.bias)
                /\ analog_tile' = [setup_tile(s.in_features, s.out_features, a.bias)
                                      EXCEPT !.weights = "initial"]
                /\ fold_indices' = <<>>
                /\ input_size' = 0
    /\ UNCHANGED <<last, serialized, pc, loc>>

init2d(a) == init(2, a, InitRaises2d(a))
init3d(a) == init(3, a, InitRaises3d(a))

\* Module.train(mode) / Module.eval(): the flag forward() reads at lines 159 / 332.
train(mode) ==
    /\ phase = "ready"
    /\ \A t \in Threads : pc[t] = "idle"
    /\ training # mode
    /\ training' = mode
    /\ UNCHANGED <<phase, ctor_args, self, fold_indices, input_size, weight, bias,
                   analog_tile, last, serialized, pc, loc>>

(***************************************************************************)
(* forward() run by one caller at a time (lines 121-159 and 271-332).      *)
(***************************************************************************)

forward(rank, x) ==
    /\ phase = "ready"
    /\ self.rank = rank
    /\ \A t \in Threads : pc[t] = "idle"
    /\ LET isz     == per_sample(x)
           rebuild == NeedsRebuild(fold_indices, input_size, isz)
           entry   == [valid |-> TRUE, x |-> x, first |-> ~last.valid,
                       \* the input differs from the input of the call before
                       \* in batch size alone
                       batch_only |-> (/\ last.valid
                                       /\ last.x.shape = x.shape
                                       /\ last.x.batch # x.batch)]
       IN  IF rebuild /\ ~Accepts(self, x)
           THEN \* the window extraction raises: nothing was assigned yet
                /\ last' = entry @@ [rebuilt |-> FALSE, raised |-> TRUE,
                                     calls |-> <<>>, result |-> "RuntimeError"]
                /\ UNCHANGED <<fold_indices, input_size, analog_tile>>
           ELSE \E fold \in {IF rebuild THEN BuildFoldIndices(self, x) ELSE fold_indices} :
                LET sizes == ImageSizes(self, x)
                    tile  == IF rebuild THEN set_indexed(analog_tile, fold, sizes)
                             ELSE analog_tile
                    flag  == InferenceFlag(training)
                    log   == (IF rebuild THEN <<SetIndexedEvent(fold, sizes)>> ELSE <<>>)
                             \o <<ApplyEvent(tile, flag)>>
                IN  /\ fold_indices' = fold
                    /\ input_size' = IF rebuild THEN isz ELSE input_size
                    /\ analog_tile' = tile
                    /\ last' = entry @@ [rebuilt |-> rebuild, raised |-> FALSE,
                                         calls |-> log,
                                         result |-> TileOutput(tile, x, weight, bias, flag)]
    /\ UNCHANGED <<phase, ctor_args, self, training, weight, bias, serialized, pc, loc>>

forward2d(x) == forward(2, x)
forward3d(x) == forward(3, x)

(***************************************************************************)
(* The callers: which constructor arguments and inputs are tried.          *)
(***************************************************************************)

\* All tuples of length n over the set S.
Tuples(n, S) == [1..n -> S]

\* Constructor arguments given per axis, as tuples.
TupleArgs(rank, dilations) ==
    [in_channels  : 1..MaxChannels,
     out_channels : {1},
     kernel_size  : {TupleArg(t) : t \in Tuples(rank, 1..MaxKernel)},
     stride       : {TupleArg(t) : t \in Tuples(rank, 1..MaxStride)},
     padding      : {TupleArg(t) : t \in Tuples(rank, 0..MaxPad)},
     dilation     : dilations,
     groups       : {1},
     bias         : BOOLEAN,
     padding_mode : {"zeros"}]

\* Constructor arguments given as single integers, stride and padding left at
\* their defaults (1 and 0), the unsupported configurations included.
ScalarArgs(rank) ==
    [in_channels  : 1..MaxChannels,
     out_channels : {1},
     kernel_size  : {IntArg(n) : n \in 1..MaxKernel},
     stride       : {IntArg(1)},
     padding      : {IntArg(0)},
     dilation     : {IntArg(n) : n \in 1..MaxDil}
                       \cup {TupleArg([i \in 1..rank |-> 1]),
                             TupleArg([i \in 1..rank |-> IF i = 1 THEN 2 ELSE 1])},
     groups       : {1, 2},
     bias         : BOOLEAN,
     padding_mode : {"zeros", "circular"}]

\* Inputs whose channel count is the layer's in_channels.
Inputs2d(C) ==
    {[batch |-> n, shape |-> <<C, h, w>>] :
        n \in 1..MaxBatch, h \in 1..MaxSize, w \in 1..MaxSize}
Inputs3d(C) ==
    {[batch |-> n, shape |-> <<C, d, hw[1], hw[2]>>] :
        n \in 1..MaxBatch, d \in 1..MaxDepth, hw \in (1..MaxSize) \X (1..MaxSize)}

Init ==
    /\ phase = "new"
    /\ ctor_args = NoArgs
    /\ self = NoSelf
    /\ fold_indices = <<>>
    /\ input_size = 0
    /\ training = TRUE
    /\ weight = "unset"
    /\ bias = "unset"
    /\ analog_tile = NoTile
    /\ last = NoCall
    /\ serialized = TRUE
    /\ pc = [t \in Threads |-> "idle"]
    /\ loc = [t \in Threads |-> NoLocals]

(***************************************************************************)
(* Spec: one layer, constructed once, then used by one caller.             *)
(***************************************************************************)
Construct2d == \E a \in ScalarArgs(2) : init2d(a)
Construct3d == \E a \in ScalarArgs(3) : init3d(a)
Forward2d == phase = "ready" /\ \E x \in Inputs2d(self.in_channels) : forward2d(x)
Forward3d == phase = "ready" /\ \E x \in Inputs3d(self.in_channels) : forward3d(x)
Train == \E mode \in BOOLEAN : train(mode)

Next == Construct2d \/ Construct3d \/ Forward2d \/ Forward3d \/ Train

Spec == Init /\ [][Next]_vars

(***************************************************************************)
(* SpecBuild: the two IndexMap builders over per-axis configurations; a    *)
(* layer is constructed and forward() is called once.                      *)
(***************************************************************************)
BuildArgs2d == TupleArgs(2, {TupleArg(t) : t \in Tuples(2, 1..MaxDil)})
BuildArgs3d == TupleArgs(3, {IntArg(1)})

ConstructPerAxis2d == \E a \in BuildArgs2d : init2d(a)
ConstructPerAxis3d == \E a \in BuildArgs3d : init3d(a)
Build2d ==
    /\ phase = "ready" /\ ~last.valid
    /\ \E x \in Inputs2d(self.in_channels) : x.batch = 1 /\ forward2d(x)
Build3d ==
    /\ phase = "ready" /\ ~last.valid
    /\ \E x \in Inputs3d(self.in_channels) : x.batch = 1 /\ forward3d(x)

NextBuild == ConstructPerAxis2d \/ ConstructPerAxis3d \/ Build2d \/ Build3d

SpecBuild == Init /\ [][NextBuild]_vars

(***************************************************************************)
(* SpecConc: two threads call forward() on one constructed layer, each     *)
(* with its own input; the inputs differ in per-sample element count.      *)
(* A thread may be pre-empted between any two statements of forward().     *)
(* `serialized` says whether the callers serialize calls per instance.     *)
(***************************************************************************)

\* Line 130 / 280: a call starts and computes input_size.
begin(t) ==
    /\ phase = "ready"
    /\ pc[t] = "idle"
    /\ serialized => \A u \in Threads : pc[u] = "idle"
    /\ loc' = [loc EXCEPT ![t] = [x |-> loc[t].x, input_size |-> per_sample(loc[t].x),
                                  fold_indices |-> <<>>, image_sizes |-> <<>>]]
    /\ pc' = [pc EXCEPT ![t] = "check"]
    /\ UNCHANGED <<phase, ctor_args, self, fold_indices, input_size, training, weight,
                   bias, analog_tile, last, serialized>>

\* Line 131 / 281: the geometry-change test.
check(t) ==
    /\ pc[t] = "check"
    /\ pc' = [pc EXCEPT ![t] =
                IF NeedsRebuild(fold_indices, input_size, loc[t].input_size)
                THEN "build" ELSE "apply"]
    /\ UNCHANGED <<phase, ctor_args, self, fold_indices, input_size, training, weight,
                   bias, analog_tile, last, serialized, loc>>

\* Lines 133-144 / 283-315: the index map is built in a local variable; the
\* window extraction raises when it does not accept the input, ending the call.
build(t) ==
    /\ pc[t] = "build"
    /\ IF Accepts(self, loc[t].x)
       THEN /\ loc' = [loc EXCEPT ![t].fold_indices = BuildFoldIndices(self, loc[t].x)]
            /\ pc' = [pc EXCEPT ![t] = "store_fold"]
       ELSE /\ loc' = loc
            /\ pc' = [pc EXCEPT ![t] = "idle"]
    /\ UNCHANGED <<phase, ctor_args, self, fold_indices, input_size, training, weight,
                   bias, analog_tile, last, serialized>>

\* Line 146 / 317: self.fold_indices = fold_indices.to(x_input.device)
store_fold(t) ==
    /\ pc[t] = "store_fold"
    /\ fold_indices' = loc[t].fold_indices
    /\ pc' = [pc EXCEPT ![t] = "store_size"]
    /\ UNCHANGED <<phase, ctor_args, self, input_size, training, weight, bias,
                   analog_tile, last, serialized, loc>>

\* Lines 148-155 / 319-328: image_sizes, then self.input_size = input_size
store_size(t) ==
    /\ pc[t] = "store_size"
    /\ loc' = [loc EXCEPT ![t].image_sizes = ImageSizes(self, loc[t].x)]
    /\ input_size' = loc[t].input_size
    /\ pc' = [pc EXCEPT ![t] = "set_indexed"]
    /\ UNCHANGED <<phase, ctor_args, self, fold_indices, training, weight, bias,
                   analog_tile, last, serialized>>

\* Line 156 / 329: self.analog_tile.set_indexed(self.fold_indices, image_sizes)
push_indexed(t) ==
    /\ pc[t] = "set_indexed"
    /\ analog_tile' = set_indexed(analog_tile, fold_indices, loc[t].image_sizes)
    /\ pc' = [pc EXCEPT ![t] = "apply"]
    /\ UNCHANGED <<phase, ctor_args, self, fold_indices, input_size, training, weight,
                   bias, last, serialized, loc>>

\* Lines 158-159 / 331-332: the indexed op runs on what the tile holds now.
apply(t) ==
    /\ pc[t] = "apply"
    /\ last' = [valid |-> TRUE, thread |-> t, x |-> loc[t].x,
                calls |-> <<ApplyEvent(analog_tile, InferenceFlag(training))>>,
                result |-> TileOutput(analog_tile, loc[t].x, weight, bias,
                                      InferenceFlag(training))]
    /\ pc' = [pc EXCEPT ![t] = "idle"]
    /\ UNCHANGED <<phase, ctor_args, self, fold_indices, input_size, training, weight,
                   bias, analog_tile, serialized, loc>>

\* The layers the threads share: default stride, padding and dilation.
ConcArgs ==
    [in_channels  : 1..MaxChannels,
     out_channels : {1},
     kernel_size  : {IntArg(n) : n \in 1..MaxKernel},
     stride       : {IntArg(1)},
     padding      : {IntArg(0)},
     dilation     : {IntArg(1)},
     groups       : {1},
     bias         : BOOLEAN,
     padding_mode : {"zeros"}]

InitConc ==
    \E rank \in {2, 3} : \E a \in ConcArgs :
        LET s  == Constructed(rank, a)
            xs == IF rank = 2 THEN Inputs2d(s.in_channels) ELSE Inputs3d(s.in_channels)
        IN  /\ phase = "ready"
            /\ ctor_args = [rank |-> rank, args |-> a]
            /\ self = s
            /\ fold_indices = <<>>
            /\ input_size = 0
            /\ training = TRUE
            /\ weight = "initial"
            /\ bias = IF a.bias THEN "initial" ELSE "None"
            /\ analog_tile = [setup_tile(s.in_features, s.out_features, a.bias)
                                 EXCEPT !.weights = "initial"]
                    /\ last = NoCall
            /\ serialized \in BOOLEAN
            /\ pc = [t \in Threads |-> "idle"]
            /\ \E x1 \in xs : \E x2 \in xs :
                  /\ x1.batch = 1 /\ x2.batch = 1
                  /\ per_sample(x1) < per_sample(x2)
                  /\ loc = [t \in Threads |-> [x |-> IF t = 1 THEN x1 ELSE x2]]

Begin == \E t \in Threads : begin(t)
Check == \E t \in Threads : check(t)
BuildStep == \E t \in Threads : build(t)
StoreFold == \E t \in Threads : store_fold(t)
StoreSize == \E t \in Threads : store_size(t)
PushIndexed == \E t \in Threads : push_indexed(t)
Apply == \E t \in Threads : apply(t)

NextConc == Begin \/ Check \/ BuildStep \/ StoreFold \/ StoreSize \/ PushIndexed \/ Apply

SpecConc == InitConc /\ [][NextConc]_vars

(***************************************************************************)
(* Vocabulary of the properties: the geometry of a convolution, stated     *)
(* independently of how forward() computes it.                             *)
(***************************************************************************)

\* The spatial sizes of an input (its shape without the channel axis).
Spatial(x) == Tail(x.shape)

\* floor((size + 2*pad - dilation*(kernel-1) - 1) / stride) + 1
OutSize(size, kernel, stride, padding, dilation) ==
    ((size + 2 * padding - dilation * (kernel - 1) - 1) \div stride) + 1

OutSizes(s, x) ==
    [a \in 1..s.rank |-> OutSize(Spatial(x)[a], s.kernel_size[a], s.stride[a],
                                 s.padding[a], s.dilation[a])]

NumPositions(s, x) == Prod(OutSizes(s, x))
KernelVolume(s) == Prod(s.kernel_size)
PatchSize(s) == s.in_channels * KernelVolume(s)

\* The input is one the window extraction accepts: every output size is positive.
GeometryOk(s, x) == \A a \in 1..s.rank : OutSizes(s, x)[a] >= 1

\* Row-major coordinates of the 0-based linear index n in a box of sizes dims.
Unravel(n, dims) ==
    [a \in 1..Len(dims) |-> (n \div Prod(SubSeq(dims, a + 1, Len(dims)))) % dims[a]]

\* Row-major 0-based linear index of the coordinates c in a box of sizes dims.
RECURSIVE Ravel(_, _)
Ravel(c, dims) ==
    IF Len(dims) = 0 THEN 0
    ELSE Ravel(SubSeq(c, 1, Len(c) - 1), SubSeq(dims, 1, Len(dims) - 1)) * dims[Len(dims)]
         + c[Len(c)]

\* The input coordinate sampled by kernel offset k (linear) at output position l.
Sampled(s, x, k, l) ==
    LET ko == Unravel(k, s.kernel_size)
        lo == Unravel(l, OutSizes(s, x))
    IN  [a \in 1..s.rank |-> lo[a] * s.stride[a] - s.padding[a] + ko[a] * s.dilation[a]]

\* The sampled coordinate lies in the zero-padding border.
InPadding(s, x, k, l) ==
    \E a \in 1..s.rank :
        Sampled(s, x, k, l)[a] < 0 \/ Sampled(s, x, k, l)[a] >= Spatial(x)[a]

\* The address of channel c, kernel offset k, output position l: 0 in the padding,
\* else 2 + c * (spatial elements per channel) + row-major index of the element.
Address(s, x, c, k, l) ==
    IF InPadding(s, x, k, l) THEN 0
    ELSE 2 + c * Prod(Spatial(x)) + Ravel(Sampled(s, x, k, l), Spatial(x))

\* The last forward() call returned and rebuilt the IndexMap.
Rebuilt == last.valid /\ ~last.raised /\ last.rebuilt

\* The entries of the cached IndexMap that are not bias markers.
NonBiasCount == Cardinality({n \in 1..Len(fold_indices) : fold_indices[n] # 1})

\* The 2D configuration and input viewed as 3D with depth 1.
AsDepthOne(s) ==
    [s EXCEPT !.rank = 3,
              !.kernel_size = <<1>> \o s.kernel_size,
              !.stride = <<1>> \o s.stride,
              !.padding = <<0>> \o s.padding,
              !.dilation = <<1, 1, 1>>]
InputAsDepthOne(x) ==
    [batch |-> x.batch, shape |-> <<x.shape[1], 1, x.shape[2], x.shape[3]>>]

\* A step of Spec that is a forward() call (train() is the only other step of a
\* constructed layer, and it changes `training`).
IsForwardStep == phase = "ready" /\ training' = training /\ last'.valid

HasSetIndexed(log) == \E i \in 1..Len(log) : log[i].op = "set_indexed"

\* The configuration a constructor call asks for is unsupported.
Unsupported(rank, a) ==
    \/ a.groups # 1
    \/ a.padding_mode # "zeros"
    \/ rank = 3 /\ \E i \in 1..3 : ntuple(3, a.dilation)[i] # 1

(***************************************************************************)
(* The claims.                                                             *)
(***************************************************************************)

\* C1 (as claimed): of two consecutive forward() calls whose inputs have different
\* spatial shapes (both accepted by the layer's geometry), the second rebuilds the
\* IndexMap and calls set_indexed exactly once, with the new IndexMap and the
\* geometry descriptor of the new input, before the indexed op.
C1_ShapeChangeRebuilds ==
    [][(/\ IsForwardStep
        /\ last.valid /\ ~last.raised /\ ~last'.raised
        /\ GeometryOk(self, last.x) /\ GeometryOk(self, last'.x)
        /\ Spatial(last.x) # Spatial(last'.x))
       => /\ last'.rebuilt
          /\ Len(last'.calls) = 2
          /\ last'.calls[1].op = "set_indexed"
          /\ last'.calls[1].fold_indices = fold_indices'
          /\ last'.calls[1].image_sizes
                = <<self.in_channels>> \o Spatial(last'.x) \o OutSizes(self, last'.x)
          /\ last'.calls[2].op = "apply"]_vars

\* C2 (as claimed): with bias the IndexMap has length patch_size * num_positions
\* + num_positions and the bias entries are exactly the trailing num_positions
\* slots, all 1; without bias nothing is appended.
C2_BiasEntries ==
    Rebuilt =>
        LET P == PatchSize(self)
            L == NumPositions(self, last.x)
        IN  IF self.use_bias
            THEN /\ Len(fold_indices) = P * L + L
                 /\ \A n \in 1..Len(fold_indices) :
                        (fold_indices[n] = 1) <=> (n > P * L)
            ELSE /\ Len(fold_indices) = P * L
                 /\ \A n \in 1..Len(fold_indices) : fold_indices[n] # 1

\* C3 (as claimed): construction raises exactly when the configuration is
\* unsupported (groups # 1, padding_mode # 'zeros', or for 3D a dilation that is
\* not 1 on some axis), and on error no layer state is set up.
C3_RaisesIffUnsupported ==
    phase # "new" =>
        /\ (phase = "error") <=> Unsupported(ctor_args.rank, ctor_args.args)
        /\ phase = "error" =>
              self = NoSelf /\ fold_indices = <<>> /\ analog_tile = NoTile

\* C4: a forward() call that returns rebuilds the IndexMap (and calls set_indexed)
\* iff no index map exists yet or the per-sample element count differs from the
\* cached key; the first call rebuilds; a call with the shape of the call before it
\* (whatever the batch sizes) does not rebuild, so the first two calls with one
\* shape rebuild once in total; a call that does not rebuild leaves the cached
\* IndexMap, the cached key and the tile's index state unchanged.
C4_RebuildIffKeyChanged ==
    [][IsForwardStep /\ ~last'.raised =>
         LET x == last'.x
         IN  /\ last'.rebuilt <=>
                    (Len(fold_indices) = 0 \/ input_size # Prod(x.shape))
             /\ last'.rebuilt <=> HasSetIndexed(last'.calls)
             /\ last'.rebuilt =>
                    /\ input_size' = Prod(x.shape)
                    /\ Len(fold_indices') > 0
                    /\ analog_tile'.fold_indices = fold_indices'
             /\ ~last.valid => last'.rebuilt
             /\ (last.valid /\ ~last.raised /\ last.x.shape = x.shape)
                    => ~last'.rebuilt
             /\ (last.valid /\ ~last.raised /\ last.first /\ last.x.shape = x.shape)
                    => (last.rebuilt /\ ~last'.rebuilt)
             /\ ~last'.rebuilt =>
                    /\ fold_indices' = fold_indices
                    /\ input_size' = input_size
                    /\ analog_tile' = analog_tile]_vars

\* C4 witness: a call that differs from the call before it in batch size alone
\* reused the index map.
C4_Witness ==
    /\ last.valid /\ ~last.first /\ ~last.raised /\ ~last.rebuilt
    /\ last.batch_only
    /\ Len(fold_indices) > 0 /\ input_size = Prod(last.x.shape)

\* C5: every non-bias entry of a rebuilt IndexMap, for channel c, kernel offset k
\* and output position l, is 0 iff the sampled coordinate lies in the padding, and
\* else is 2 + c * (spatial elements per channel) + the row-major index of the
\* sampled element, within [2, per-sample element count + 1]; in 3D channel i's
\* block is channel 0's block plus i * (count / in_channels) off the sentinels.
C5_SentinelsAndAddresses ==
    Rebuilt =>
        LET x == last.x
            K == KernelVolume(self)
            L == NumPositions(self, x)
            N == Prod(x.shape)
        IN  /\ \A c \in 0..(self.in_channels - 1) : \A k \in 0..(K - 1) :
                 \A l \in 0..(L - 1) :
                    LET e == fold_indices[(c * K + k) * L + l + 1]
                    IN  /\ (e = 0) <=> InPadding(self, x, k, l)
                        /\ e # 0 =>
                             /\ e = 2 + c * Prod(Spatial(x))
                                      + Ravel(Sampled(self, x, k, l), Spatial(x))
                             /\ 2 <= e /\ e <= N + 1
            /\ self.rank = 3 =>
                 \A i \in 1..(self.in_channels - 1) : \A j \in 1..(K * L) :
                    fold_indices[i * K * L + j] =
                        IF fold_indices[j] = 0 THEN 0
                        ELSE fold_indices[j] + i * (N \div self.in_channels)

\* C5 witness: a 3D layer with two channels and padding built a map that holds
\* sentinels and addresses of the second channel.
C5_Witness ==
    /\ Rebuilt /\ self.rank = 3 /\ self.in_channels = 2
    /\ \E n \in 1..Len(fold_indices) : fold_indices[n] = 0
    /\ \E n \in 1..Len(fold_indices) : fold_indices[n] > 1 + Prod(Spatial(last.x))

\* C6: for a 2D layer with one input channel and dilation 1, with or without bias,
\* the IndexMap of the 2D builder equals the IndexMap of the 3D builder for the
\* same input viewed with depth 1, kernel depth 1, stride depth 1, padding depth 0.
C6_CrossRank ==
    (Rebuilt /\ self.rank = 2 /\ self.in_channels = 1 /\ self.dilation = <<1, 1>>)
    => fold_indices = BuildFoldIndices3d(AsDepthOne(self), InputAsDepthOne(last.x))

\* C6 witness: such a 2D layer, with bias, unequal paddings and several window
\* positions, built its map.
C6_Witness ==
    /\ Rebuilt /\ self.rank = 2 /\ self.in_channels = 1 /\ self.dilation = <<1, 1>>
    /\ self.use_bias /\ self.padding[1] # self.padding[2]
    /\ KernelVolume(self) > 1 /\ NumPositions(self, last.x) > 2

\* C7: every forward() call that returns invokes the indexed op exactly once, as
\* the last tile operation of the call (after its set_indexed, if any), with an
\* inference flag that is true exactly when the layer is not training; it leaves
\* weight and bias alone and returns the tile's output.
C7_IndexedOpEveryCall ==
    [][IsForwardStep /\ ~last'.raised =>
         LET log == last'.calls
             n   == Len(log)
         IN  /\ n >= 1 /\ n <= 2
             /\ log[n].op = "apply"
             /\ \A i \in 1..(n - 1) : log[i].op = "set_indexed"
             /\ log[n].inference = ~training
             /\ log[n].fold_indices = analog_tile'.fold_indices
             /\ log[n].image_sizes = analog_tile'.image_sizes
             /\ weight' = weight /\ bias' = bias
             /\ last'.result = TileOutput(analog_tile', last'.x, weight, bias, ~training)]_vars

\* C7 witness: a call in evaluation mode that reused the cached map ran the
\* indexed op with the inference flag set.
C7_Witness ==
    /\ last.valid /\ ~last.raised /\ ~last.rebuilt
    /\ Len(last.calls) = 1 /\ last.calls[1].op = "apply" /\ last.calls[1].inference

\* C8 (as claimed): patch entries vary fastest, the entry of patch element p at
\* output position l is stored at flat offset l * patch_size + p.
C8_PatchFastest ==
    Rebuilt =>
        LET K == KernelVolume(self)
            P == PatchSize(self)
            L == NumPositions(self, last.x)
        IN  \A p \in 0..(P - 1) : \A l \in 0..(L - 1) :
                fold_indices[l * P + p + 1] = Address(self, last.x, p \div K, p % K, l)

\* C8 (amended): output positions vary fastest, the entry of patch element p at
\* output position l is stored at flat offset p * num_positions + l, in the map of
\* the 2D builder and of the 3D builder alike.
C8_PositionFastest ==
    Rebuilt =>
        LET K == KernelVolume(self)
            P == PatchSize(self)
            L == NumPositions(self, last.x)
        IN  \A p \in 0..(P - 1) : \A l \in 0..(L - 1) :
                fold_indices[p * L + l + 1] = Address(self, last.x, p \div K, p % K, l)

\* C8 witness: a map with several patch elements and several positions whose
\* position-fastest layout differs from the patch-fastest one.
C8_Witness ==
    /\ Rebuilt
    /\ PatchSize(self) > 1 /\ NumPositions(self, last.x) > 1
    /\ ~C8_PatchFastest

\* C9: on a rebuild the tile gets [in_channels, input sizes..., output sizes...]
\* with every output size floor((size + 2*pad - dilation*(kernel-1) - 1)/stride) + 1
\* (3 for size 5, kernel 3, stride 1, pad 0 and for size 5, kernel 3, stride 2,
\* pad 1), and the non-bias length of the IndexMap is in_channels * product of
\* the kernel sizes * product of the descriptor's output sizes.
C9_GeometryDescriptor ==
    /\ get_size([padding |-> <<0>>, dilation |-> <<1>>, kernel_size |-> <<3>>,
                 stride |-> <<1>>], 5, 0) = 3
    /\ get_size([padding |-> <<1>>, dilation |-> <<1>>, kernel_size |-> <<3>>,
                 stride |-> <<2>>], 5, 0) = 3
    /\ Rebuilt =>
         LET x    == last.x
             r    == self.rank
             desc == analog_tile.image_sizes
             outs == SubSeq(desc, r + 2, 2 * r + 1)
         IN  /\ Len(desc) = 2 * r + 1
             /\ desc[1] = self.in_channels
             /\ SubSeq(desc, 2, r + 1) = Spatial(x)
             /\ outs = OutSizes(self, x)
             /\ NonBiasCount = self.in_channels * KernelVolume(self) * Prod(outs)

\* C9 witness: a rebuild with stride 2, padding and dilation 2 on some axis.
C9_Witness ==
    /\ Rebuilt
    /\ \E a \in 1..self.rank :
          self.stride[a] = 2 /\ self.padding[a] = 1 /\ self.dilation[a] = 2
    /\ NumPositions(self, last.x) > 1

\* The tile holds the IndexMap and the geometry descriptor of thread t's input.
TileMatches(t) ==
    /\ analog_tile.fold_indices = BuildFoldIndices(self, loc[t].x)
    /\ analog_tile.image_sizes = ImageSizes(self, loc[t].x)

\* The cached IndexMap and the cached key belong to one input (or none).
CacheCoherent ==
    \/ fold_indices = <<>> /\ input_size = 0
    \/ \E t \in Threads :
          /\ fold_indices = BuildFoldIndices(self, loc[t].x)
          /\ input_size = Prod(loc[t].x.shape)

\* C10: when the callers serialize forward() per layer instance, the indexed op
\* of a call always runs on the IndexMap and descriptor of that call's input, and
\* between calls the cached key and the cached IndexMap belong to one input.
C10_SerializedIsSafe ==
    serialized =>
        /\ \A t \in Threads : pc[t] = "apply" => TileMatches(t)
        /\ (\A t \in Threads : pc[t] = "idle") => CacheCoherent

\* C10 witness (the race): without serialization a call is about to run its
\* indexed op while the tile holds the IndexMap pushed for the other call's input.
C10_Race ==
    /\ ~serialized
    /\ \E t \in Threads : \E u \in Threads :
          /\ t # u
          /\ pc[t] = "apply"
          /\ analog_tile.fold_indices # BuildFoldIndices(self, loc[t].x)
          /\ analog_tile.fold_indices = BuildFoldIndices(self, loc[u].x)

====
